---- MODULE Spec2Model ----
(***************************************************************************)
(* The ERC20 ledger of rust-token/src/lib.rs: the Balance and Allowance    *)
(* storage mappings, the event log, and the operations deploy, transfer,   *)
(* approve and transfer_from.  One action is one call of the contract:     *)
(* the call runs on a working copy of the storage (sdk), and a panic       *)
(* aborts the call, which discards the working copy.                       *)
(***************************************************************************)
EXTENDS Integers, Sequences, FiniteSets, TLC

\* ---------------------------------------------------------------- bounds
\* Account identities.  ZeroAddress is Address::ZERO; it is an ordinary key.
Address == {0, 1, 2}
ZeroAddress == 0

\* U256 is scaled down to Width bits; `+` and `-` on U256 wrap modulo 2^Width.
Width == 2
Modulus == 2 ^ Width
U256 == 0 .. (Modulus - 1)

\* The literal "1000000000000000000000000", scaled to the model's width.
Supply == 2

\* Call arguments of type U256 are drawn from 0 .. MaxValue.
MaxValue == 3
Values == 0 .. MaxValue

\* At most MaxCalls calls of the router are made after deploy.
MaxCalls == 2

\* At most MaxSpendCalls calls are made after deploy between one owner and
\* one spender (SpecSpend).
MaxSpendCalls == 3

\* At most MaxStepCalls calls are begun after deploy when a call is taken one
\* storage write at a time (SpecStep).
MaxStepCalls == 2

VARIABLES
    deployed,   \* TRUE once the deploy entry point has run
    balance,    \* storage mapping Balance:   Address -> U256
    allowance,  \* storage mapping Allowance: Address -> (Address -> U256)
    log,        \* the events emitted by committed calls, in emission order
    last,       \* the most recent call: its arguments, outcome and pre-state
    calls,      \* the number of router calls made since deploy
    ghost,      \* history of the committed calls: what was minted, approved, spent
    run         \* the call in progress and its working copy (SpecStep), or Idle

vars == <<deployed, balance, allowance, log, last, calls, ghost, run>>

\* ------------------------------------------------------------ the events
\* sol! { event Transfer(address indexed from, address indexed to, uint256 value) }
Transfer(from, to, value) ==
    [name |-> "Transfer", topic1 |-> from, topic2 |-> to, data |-> value]

\* sol! { event Approval(address indexed owner, address indexed spender, uint256 value) }
Approval(owner, spender, value) ==
    [name |-> "Approval", topic1 |-> owner, topic2 |-> spender, data |-> value]

\* ------------------------------------------------- the working copy (sdk)
\* sdk = [Balance, Allowance, log, trace]; trace lists the storage writes and
\* log emissions of the running call in the order they were performed.
SStore(kind, key) == [kind |-> kind, key |-> key]

emit_event(sdk, event) ==
    [sdk EXCEPT !.log = Append(@, event),
                !.trace = Append(@, SStore("log", <<>>))]

Balance_get(sdk, address) == sdk.Balance[address]

Balance_set(sdk, address, value) ==
    [sdk EXCEPT !.Balance[address] = value,
                !.trace = Append(@, SStore("Balance", <<address>>))]

Allowance_get(sdk, owner, spender) == sdk.Allowance[owner][spender]

Allowance_set(sdk, owner, spender, value) ==
    [sdk EXCEPT !.Allowance[owner][spender] = value,
                !.trace = Append(@, SStore("Allowance", <<owner, spender>>))]

\* Result<(), &'static str> together with the working copy it leaves behind.
Ok(sdk) == [ok |-> TRUE, err |-> "", sdk |-> sdk]
Err(sdk, msg) == [ok |-> FALSE, err |-> msg, sdk |-> sdk]

\* Balance::add storing the amount instead of the sum.
Balance_add_overwrite(sdk, address, amount) ==
    Ok(Balance_set(sdk, address, amount % Modulus))

Balance_add(sdk, address, amount) ==
    LET current_balance == Balance_get(sdk, address)
        new_balance == (current_balance + amount) % Modulus
    IN  Ok(Balance_set(sdk, address, new_balance))

\* Balance::subtract without the balance check: the subtraction wraps.
Balance_subtract_unchecked(sdk, address, amount) ==
    Ok(Balance_set(sdk, address,
                   (Balance_get(sdk, address) - amount) % Modulus))

\* Balance::subtract rejecting a debit of the whole balance (<= for <).
Balance_subtract_strict(sdk, address, amount) ==
    LET current_balance == Balance_get(sdk, address)
    IN  IF current_balance <= amount
        THEN Err(sdk, "insufficient balance")
        ELSE Ok(Balance_set(sdk, address, (current_balance - amount) % Modulus))

\* Balance::subtract with the comparison turned round.
Balance_subtract_inverted(sdk, address, amount) ==
    LET current_balance == Balance_get(sdk, address)
    IN  IF amount < current_balance
        THEN Err(sdk, "insufficient balance")
        ELSE Ok(Balance_set(sdk, address, (current_balance - amount) % Modulus))

Balance_subtract(sdk, address, amount) ==
    LET current_balance == Balance_get(sdk, address)
    IN  IF current_balance < amount
        THEN Err(sdk, "insufficient balance")
        ELSE Ok(Balance_set(sdk, address, (current_balance - amount) % Modulus))

\* Allowance::subtract that checks but never stores the new allowance.
Allowance_subtract_no_store(sdk, owner, spender, amount) ==
    LET current_allowance == Allowance_get(sdk, owner, spender)
    IN  IF current_allowance < amount
        THEN Err(sdk, "insufficient allowance")
        ELSE Ok(sdk)

\* Allowance::subtract rejecting a spend of the whole allowance (<= for <).
Allowance_subtract_strict(sdk, owner, spender, amount) ==
    LET current_allowance == Allowance_get(sdk, owner, spender)
    IN  IF current_allowance <= amount
        THEN Err(sdk, "insufficient allowance")
        ELSE Ok(Allowance_set(sdk, owner, spender,
                              (current_allowance - amount) % Modulus))

Allowance_subtract(sdk, owner, spender, amount) ==
    LET current_allowance == Allowance_get(sdk, owner, spender)
    IN  IF current_allowance < amount
        THEN Err(sdk, "insufficient allowance")
        ELSE Ok(Allowance_set(sdk, owner, spender,
                              (current_allowance - amount) % Modulus))

\* ------------------------------------------------------- call outcomes
\* A call either returns a U256 or panics with a message.
Return(sdk, ret) == [ok |-> TRUE, ret |-> ret, err |-> "", sdk |-> sdk]
Panic(sdk, msg) == [ok |-> FALSE, ret |-> 0, err |-> msg, sdk |-> sdk]

total_supply == Supply

\* A mint literal that differs from the total_supply literal.
owner_balance_short == Supply - 1

owner_balance == Supply

\* transfer emitting its event before it touches the balances.
transfer_emit_first(sdk, caller, to, value) ==
    LET from == caller
        s0 == emit_event(sdk, Transfer(from, to, value))
        r1 == Balance_subtract(s0, from, value)
    IN  IF ~r1.ok THEN Panic(r1.sdk, r1.err)
        ELSE LET r2 == Balance_add(r1.sdk, to, value)
             IN  Return(r2.sdk, 1)

\* transfer crediting from a balance it read before the debit was written.
transfer_stale_credit(sdk, caller, to, value) ==
    LET from == caller
        to_balance == Balance_get(sdk, to)
        r1 == Balance_subtract(sdk, from, value)
    IN  IF ~r1.ok THEN Panic(r1.sdk, r1.err)
        ELSE LET s2 == Balance_set(r1.sdk, to, (to_balance + value) % Modulus)
             IN  Return(emit_event(s2, Transfer(from, to, value)), 1)

transfer(sdk, caller, to, value) ==
    LET from == caller
        r1 == Balance_subtract(sdk, from, value)
    IN  IF ~r1.ok THEN Panic(r1.sdk, r1.err)
        ELSE LET r2 == Balance_add(r1.sdk, to, value)
             IN  IF ~r2.ok THEN Panic(r2.sdk, r2.err)
                 ELSE Return(emit_event(r2.sdk, Transfer(from, to, value)), 1)

\* approve adding to the stored allowance (Allowance::add) instead of setting it.
approve_accumulate(sdk, caller, spender, value) ==
    LET owner == caller
        s1 == Allowance_set(sdk, owner, spender,
                  (Allowance_get(sdk, owner, spender) + value) % Modulus)
    IN  Return(emit_event(s1, Approval(owner, spender, value)), 1)

\* approve writing the entry of the pair the wrong way round.
approve_swapped(sdk, caller, spender, value) ==
    LET owner == caller
        s1 == Allowance_set(sdk, spender, owner, value)
    IN  Return(emit_event(s1, Approval(owner, spender, value)), 1)

approve(sdk, caller, spender, value) ==
    LET owner == caller
        s1 == Allowance_set(sdk, owner, spender, value)
    IN  Return(emit_event(s1, Approval(owner, spender, value)), 1)

\* transfer_from debiting the balance before it looks at the allowance.
transfer_from_balance_first(sdk, caller, from, to, value) ==
    LET spender == caller
        r2 == Balance_subtract(sdk, from, value)
    IN  IF ~r2.ok THEN Panic(r2.sdk, r2.err)
        ELSE LET r1 == Allowance_subtract(r2.sdk, from, spender, value)
             IN  IF ~r1.ok THEN Panic(r1.sdk, r1.err)
                 ELSE LET r3 == Balance_add(r1.sdk, to, value)
                      IN  Return(emit_event(r3.sdk, Transfer(from, to, value)), 1)

\* transfer_from that never looks at the allowance.
transfer_from_no_allowance(sdk, caller, from, to, value) ==
    LET r2 == Balance_subtract(sdk, from, value)
    IN  IF ~r2.ok THEN Panic(r2.sdk, r2.err)
        ELSE LET r3 == Balance_add(r2.sdk, to, value)
             IN  Return(emit_event(r3.sdk, Transfer(from, to, value)), 1)

transfer_from(sdk, caller, from, to, value) ==
    LET spender == caller
        current_allowance == Allowance_get(sdk, from, spender)
    IN  IF current_allowance < value THEN Panic(sdk, "insufficient allowance")
        ELSE LET r1 == Allowance_subtract(sdk, from, spender, value)
             IN  IF ~r1.ok THEN Panic(r1.sdk, r1.err)
                 ELSE LET r2 == Balance_subtract(r1.sdk, from, value)
                      IN  IF ~r2.ok THEN Panic(r2.sdk, r2.err)
                          ELSE LET r3 == Balance_add(r2.sdk, to, value)
                               IN  IF ~r3.ok THEN Panic(r3.sdk, r3.err)
                                   ELSE Return(emit_event(r3.sdk,
                                                   Transfer(from, to, value)), 1)

\* deploy discards the Result of Balance::add (let _ = ...) and emits nothing.
deploy(sdk, caller) ==
    LET owner_address == caller
        r1 == Balance_add(sdk, owner_address, owner_balance)
    IN  Return(r1.sdk, 0)

\* ------------------------------------------------------ the entry point
\* The working copy a call starts from: the committed storage, an empty trace.
Sdk == [Balance |-> balance, Allowance |-> allowance, log |-> log, trace |-> <<>>]

\* An entry point that keeps the writes of a call that panicked.
Commit_no_revert(out) ==
    /\ balance' = out.sdk.Balance
    /\ allowance' = out.sdk.Allowance
    /\ log' = out.sdk.log

\* A call that returns commits its working copy; a call that panics leaves
\* storage and log as they were.  last records the call either way.
Commit(out) ==
    /\ balance' = IF out.ok THEN out.sdk.Balance ELSE balance
    /\ allowance' = IF out.ok THEN out.sdk.Allowance ELSE allowance
    /\ log' = IF out.ok THEN out.sdk.log ELSE log

\* No call is in progress.
Idle ==
    [op |-> "none", idx |-> 0, caller |-> ZeroAddress, from |-> ZeroAddress,
     to |-> ZeroAddress, value |-> 0,
     sdk |-> [Balance |-> [a \in Address |-> 0],
              Allowance |-> [o \in Address |-> [s \in Address |-> 0]],
              log |-> <<>>, trace |-> <<>>]]

\* The history after a call.  Only a call that returned adds to it:
\*   minted               the total credited by deploy
\*   approved[o][s]       the sum of the values o approved for s
\*   lastApproved[o][s]   the value of o's latest approve for s
\*   spentSince[o][s]     what s moved out of o by transfer_from since then
\*   spentTotal[o][s]     what s moved out of o by transfer_from in all
GhostAfter(op, caller, from, to, value, out) ==
    IF ~out.ok THEN ghost
    ELSE IF op = "deploy"
        THEN [ghost EXCEPT !.minted = @ + owner_balance]
    ELSE IF op = "approve"
        THEN [ghost EXCEPT !.approved[caller][to] = @ + value,
                           !.lastApproved[caller][to] = value,
                           !.spentSince[caller][to] = 0]
    ELSE IF op = "transfer_from"
        THEN [ghost EXCEPT !.spentSince[from][caller] = @ + value,
                           !.spentTotal[from][caller] = @ + value]
    ELSE ghost

Record(op, caller, from, to, value, out) ==
    /\ last' = [op |-> op, caller |-> caller, from |-> from, to |-> to,
                value |-> value, ok |-> out.ok, ret |-> out.ret,
                err |-> out.err, trace |-> out.sdk.trace,
                preBalance |-> balance, preAllowance |-> allowance,
                preLog |-> log]
    /\ ghost' = GhostAfter(op, caller, from, to, value, out)
    /\ run' = Idle

\* A deploy entry point that can be entered again on a live ledger.
Deploy_repeatable ==
    /\ \E caller \in Address :
         LET out == deploy(Sdk, caller)
         IN  Commit(out) /\ Record("deploy", caller, caller, caller, 0, out)
    /\ deployed' = TRUE
    /\ UNCHANGED calls

Deploy ==
    /\ ~deployed
    /\ \E caller \in Address :
         LET out == deploy(Sdk, caller)
         IN  Commit(out) /\ Record("deploy", caller, caller, caller, 0, out)
    /\ deployed' = TRUE
    /\ UNCHANGED calls

CallTransfer ==
    /\ deployed
    /\ calls < MaxCalls
    /\ \E caller \in Address, to \in Address, value \in Values :
         LET out == transfer(Sdk, caller, to, value)
         IN  Commit(out) /\ Record("transfer", caller, caller, to, value, out)
    /\ calls' = calls + 1
    /\ UNCHANGED deployed

CallApprove ==
    /\ deployed
    /\ calls < MaxCalls
    /\ \E caller \in Address, spender \in Address, value \in Values :
         LET out == approve(Sdk, caller, spender, value)
         IN  Commit(out) /\ Record("approve", caller, caller, spender, value, out)
    /\ calls' = calls + 1
    /\ UNCHANGED deployed

CallTransferFrom ==
    /\ deployed
    /\ calls < MaxCalls
    /\ \E caller \in Address, from \in Address, to \in Address, value \in Values :
         LET out == transfer_from(Sdk, caller, from, to, value)
         IN  Commit(out) /\ Record("transfer_from", caller, from, to, value, out)
    /\ calls' = calls + 1
    /\ UNCHANGED deployed

NoCall ==
    [op |-> "none", caller |-> ZeroAddress, from |-> ZeroAddress,
     to |-> ZeroAddress, value |-> 0, ok |-> TRUE, ret |-> 0, err |-> "",
     trace |-> <<>>,
     preBalance |-> [a \in Address |-> 0],
     preAllowance |-> [o \in Address |-> [s \in Address |-> 0]],
     preLog |-> <<>>]

NoHistory ==
    LET none == [o \in Address |-> [s \in Address |-> 0]]
    IN  [minted |-> 0, approved |-> none, lastApproved |-> none,
         spentSince |-> none, spentTotal |-> none]

Init ==
    /\ deployed = FALSE
    /\ balance = [a \in Address |-> 0]
    /\ allowance = [o \in Address |-> [s \in Address |-> 0]]
    /\ log = <<>>
    /\ last = NoCall
    /\ calls = 0
    /\ ghost = NoHistory
    /\ run = Idle

Next == Deploy \/ CallTransfer \/ CallApprove \/ CallTransferFrom

Spec == Init /\ [][Next]_vars

\* ------------------------------------------- Balance::add on any storage
\* Balance::add as a function of the stored balance and the amount: the
\* storage is drawn from all of [Address -> U256] and add is applied once.
AsOutcome(r) == [ok |-> r.ok, ret |-> 0, err |-> r.err, sdk |-> r.sdk]

InitAdd ==
    /\ deployed = TRUE
    /\ balance \in [Address -> U256]
    /\ allowance = [o \in Address |-> [s \in Address |-> 0]]
    /\ log = <<>>
    /\ last = NoCall
    /\ calls = 0
    /\ ghost = NoHistory
    /\ run = Idle

ApplyBalanceAdd ==
    /\ last.op = "none"
    /\ \E address \in Address, amount \in U256 :
         LET out == AsOutcome(Balance_add(Sdk, address, amount))
         IN  Commit(out)
             /\ Record("Balance_add", address, address, address, amount, out)
    /\ UNCHANGED <<deployed, calls>>

NextAdd == ApplyBalanceAdd

SpecAdd == InitAdd /\ [][NextAdd]_vars

\* ------------------------------------------------ one owner, one spender
\* Longer runs of the calls that bear on one allowance entry: the owner
\* approves the spender and moves his own funds, the spender spends.
SpendOwner == CHOOSE a \in Address : a # ZeroAddress

SpendSpender == CHOOSE a \in Address : a \notin {ZeroAddress, SpendOwner}

SpendApprove ==
    /\ deployed
    /\ calls < MaxSpendCalls
    /\ \E value \in Values :
         LET out == approve(Sdk, SpendOwner, SpendSpender, value)
         IN  Commit(out)
             /\ Record("approve", SpendOwner, SpendOwner, SpendSpender, value, out)
    /\ calls' = calls + 1
    /\ UNCHANGED deployed

SpendTransferFrom ==
    /\ deployed
    /\ calls < MaxSpendCalls
    /\ \E to \in Address, value \in Values :
         LET out == transfer_from(Sdk, SpendSpender, SpendOwner, to, value)
         IN  Commit(out)
             /\ Record("transfer_from", SpendSpender, SpendOwner, to, value, out)
    /\ calls' = calls + 1
    /\ UNCHANGED deployed

SpendTransfer ==
    /\ deployed
    /\ calls < MaxSpendCalls
    /\ \E to \in Address, value \in Values :
         LET out == transfer(Sdk, SpendOwner, to, value)
         IN  Commit(out)
             /\ Record("transfer", SpendOwner, SpendOwner, to, value, out)
    /\ calls' = calls + 1
    /\ UNCHANGED deployed

NextSpend == Deploy \/ SpendApprove \/ SpendTransferFrom \/ SpendTransfer

SpecSpend == Init /\ [][NextSpend]_vars

\* ------------------------------------------- a call, one write at a time
\* The statements of transfer (lines 141-144) and of transfer_from (lines
\* 169-179) in program order.
Steps_credit_first(op) ==
    IF op = "transfer"
    THEN <<"credit", "debit", "emit">>
    ELSE <<"check", "allowance", "credit", "debit", "emit">>

Steps(op) ==
    IF op = "transfer"
    THEN <<"debit", "credit", "emit">>
    ELSE <<"check", "allowance", "debit", "credit", "emit">>

\* The statement the call in progress executes next.
Statement == Steps(run.op)[run.idx]

\* The Result of that statement on the working copy.
Execute ==
    CASE Statement = "check" ->
            IF Allowance_get(run.sdk, run.from, run.caller) < run.value
            THEN Err(run.sdk, "insufficient allowance")
            ELSE Ok(run.sdk)
      [] Statement = "allowance" ->
            Allowance_subtract(run.sdk, run.from, run.caller, run.value)
      [] Statement = "debit" ->
            Balance_subtract(run.sdk, run.from, run.value)
      [] Statement = "credit" ->
            Balance_add(run.sdk, run.to, run.value)
      [] Statement = "emit" ->
            Ok(emit_event(run.sdk, Transfer(run.from, run.to, run.value)))

\* deploy, by one fixed creator: the code treats all addresses alike, and one
\* creator keeps the step-by-step state space small.
StepDeploy ==
    /\ ~deployed
    /\ LET out == deploy(Sdk, SpendOwner)
       IN  Commit(out)
           /\ Record("deploy", SpendOwner, SpendOwner, SpendOwner, 0, out)
    /\ deployed' = TRUE
    /\ UNCHANGED calls

BeginTransfer ==
    /\ deployed /\ run.op = "none"
    /\ calls < MaxStepCalls
    /\ \E caller \in Address, to \in Address, value \in Values :
         run' = [op |-> "transfer", idx |-> 1, caller |-> caller,
                 from |-> caller, to |-> to, value |-> value, sdk |-> Sdk]
    /\ calls' = calls + 1
    /\ UNCHANGED <<deployed, balance, allowance, log, last, ghost>>

BeginTransferFrom ==
    /\ deployed /\ run.op = "none"
    /\ calls < MaxStepCalls
    /\ \E caller \in Address, from \in Address, to \in Address,
          value \in Values :
         run' = [op |-> "transfer_from", idx |-> 1, caller |-> caller,
                 from |-> from, to |-> to, value |-> value, sdk |-> Sdk]
    /\ calls' = calls + 1
    /\ UNCHANGED <<deployed, balance, allowance, log, last, ghost>>

\* A statement that returned Ok and is not the last one.
StepAdvance ==
    /\ run.op # "none"
    /\ Execute.ok /\ run.idx < Len(Steps(run.op))
    /\ run' = [run EXCEPT !.idx = @ + 1, !.sdk = Execute.sdk]
    /\ UNCHANGED <<deployed, balance, allowance, log, last, calls, ghost>>

\* The last statement: the call returns U256::from(1).
StepReturn ==
    /\ run.op # "none"
    /\ Execute.ok /\ run.idx = Len(Steps(run.op))
    /\ LET out == Return(Execute.sdk, 1)
       IN  Commit(out)
           /\ Record(run.op, run.caller, run.from, run.to, run.value, out)
    /\ UNCHANGED <<deployed, calls>>

\* A statement that failed: the call panics.
StepPanic ==
    /\ run.op # "none"
    /\ ~Execute.ok
    /\ LET out == Panic(Execute.sdk, Execute.err)
       IN  Commit(out)
           /\ Record(run.op, run.caller, run.from, run.to, run.value, out)
    /\ UNCHANGED <<deployed, calls>>

\* approve has a single storage write; it is taken whole, between calls.
StepApprove ==
    /\ deployed /\ run.op = "none"
    /\ calls < MaxStepCalls
    /\ \E caller \in Address, spender \in Address, value \in Values :
         LET out == approve(Sdk, caller, spender, value)
         IN  Commit(out) /\ Record("approve", caller, caller, spender, value, out)
    /\ calls' = calls + 1
    /\ UNCHANGED deployed

NextStep ==
    \/ StepDeploy \/ StepApprove
    \/ BeginTransfer \/ BeginTransferFrom
    \/ StepAdvance \/ StepReturn \/ StepPanic

SpecStep == Init /\ [][NextStep]_vars

\* The Balance writes among the writes of a trace, in order.
BalanceWrites(trace) == SelectSeq(trace, LAMBDA e : e.kind = "Balance")

\* ------------------------------------------------------------- helpers
RECURSIVE SumOver(_, _)
SumOver(f, S) ==
    IF S = {} THEN 0
    ELSE LET a == CHOOSE x \in S : TRUE IN f[a] + SumOver(f, S \ {a})

\* The stores and the log are exactly as they were before the last call.
Unchanged ==
    /\ balance = last.preBalance
    /\ allowance = last.preAllowance
    /\ log = last.preLog

TypeOK ==
    /\ deployed \in BOOLEAN
    /\ balance \in [Address -> U256]
    /\ allowance \in [Address -> [Address -> U256]]
    /\ Len(log) <= calls
    /\ calls \in Nat

\* ---------------------------------------------------------------- claims

\* C1 (conservation): in every state reached from deploy() by any sequence of
\* transfer, approve and transfer_from calls, returned or aborted, the sum of
\* balance_of(a) over all accounts equals total_supply().
C1_Conservation ==
    deployed => SumOver(balance, Address) = total_supply

\* A transfer_from that moved a positive value between two distinct accounts.
C1_Witness ==
    /\ last.op = "transfer_from" /\ last.ok
    /\ last.value > 0 /\ last.from # last.to
    /\ balance[last.to] > 0 /\ balance[last.from] > 0

\* C2 (atomic abort of transfer): transfer(to, value) with
\* value > balance_of(caller) panics with "insufficient balance", leaves every
\* balance and every allowance as before the call and adds no event.
C2_TransferAbort ==
    (last.op = "transfer" /\ last.value > last.preBalance[last.caller])
        => /\ ~last.ok
           /\ last.err = "insufficient balance"
           /\ Unchanged

\* An over-balance transfer by a caller who holds something, to another account.
C2_Witness ==
    /\ last.op = "transfer"
    /\ last.value > last.preBalance[last.caller]
    /\ last.preBalance[last.caller] > 0
    /\ last.to # last.caller
    /\ \E o, sp \in Address : allowance[o][sp] > 0

\* C3 (balance shortfall never consumes allowance): transfer_from(from, to,
\* value) with allowance(from, caller) >= value and balance_of(from) < value
\* panics with "insufficient balance"; afterwards the allowance, all balances
\* and the log are as before the call.
C3_ShortfallKeepsAllowance ==
    (/\ last.op = "transfer_from"
     /\ last.preAllowance[last.from][last.caller] >= last.value
     /\ last.preBalance[last.from] < last.value)
        => /\ ~last.ok
           /\ last.err = "insufficient balance"
           /\ allowance[last.from][last.caller]
                  = last.preAllowance[last.from][last.caller]
           /\ Unchanged

\* The aborted call had already written the decremented allowance.
C3_Witness ==
    /\ last.op = "transfer_from"
    /\ last.preAllowance[last.from][last.caller] >= last.value
    /\ last.preBalance[last.from] < last.value
    /\ last.trace = <<SStore("Allowance", <<last.from, last.caller>>)>>
    /\ allowance[last.from][last.caller] > 0

\* C4 (failure order of transfer_from): with allowance(from, caller) < value
\* the call panics with "insufficient allowance", also when balance_of(from) <
\* value holds as well, and leaves both stores and the log unchanged.
C4_AllowanceFailsFirst ==
    (/\ last.op = "transfer_from"
     /\ last.preAllowance[last.from][last.caller] < last.value)
        => /\ ~last.ok
           /\ last.err = "insufficient allowance"
           /\ Unchanged

\* Both the allowance and the balance fall short of the value.
C4_Witness ==
    /\ last.op = "transfer_from"
    /\ last.preAllowance[last.from][last.caller] < last.value
    /\ last.preBalance[last.from] < last.value
    /\ last.preAllowance[last.from][last.caller] > 0

\* C5 (effect of a successful transfer_from): with allowance(from, caller) >=
\* value and balance_of(from) >= value the call returns 1, lowers
\* allowance(from, caller) by value, lowers balance_of(from) and raises
\* balance_of(to) by value (from # to), appends exactly Transfer(from, to,
\* value) to the log, and changes no other balance or allowance entry.
C5_TransferFromEffect ==
    (/\ last.op = "transfer_from"
     /\ last.preAllowance[last.from][last.caller] >= last.value
     /\ last.preBalance[last.from] >= last.value)
        => /\ last.ok /\ last.ret = 1
           /\ allowance[last.from][last.caller]
                  = last.preAllowance[last.from][last.caller] - last.value
           /\ \A o, sp \in Address :
                  <<o, sp>> # <<last.from, last.caller>>
                      => allowance[o][sp] = last.preAllowance[o][sp]
           /\ last.from # last.to
                  => /\ balance[last.from]
                            = last.preBalance[last.from] - last.value
                     /\ balance[last.to] = last.preBalance[last.to] + last.value
           /\ \A a \in Address \ {last.from, last.to} :
                  balance[a] = last.preBalance[a]
           /\ log = Append(last.preLog,
                           Transfer(last.from, last.to, last.value))

\* A third party spent part of an allowance, moving value between two others.
C5_Witness ==
    /\ last.op = "transfer_from" /\ last.ok
    /\ last.value > 0
    /\ last.from # last.to /\ last.caller # last.from /\ last.caller # last.to
    /\ allowance[last.from][last.caller] > 0

\* C6 (effect of transfer): transfer(to, value) returns 1 if and only if
\* balance_of(caller) >= value; on success with to # caller the caller's
\* balance falls and to's balance rises by exactly value, every other balance
\* and every allowance is unchanged; the flag 1 is never returned by a call
\* whose movement was not applied in full.
C6_TransferEffect ==
    last.op = "transfer"
        => /\ last.ok <=> last.preBalance[last.caller] >= last.value
           /\ last.ret = 1 <=> last.ok
           /\ last.ok
                  => /\ last.to # last.caller
                            => /\ balance[last.caller]
                                      = last.preBalance[last.caller] - last.value
                               /\ balance[last.to]
                                      = last.preBalance[last.to] + last.value
                     /\ \A a \in Address \ {last.caller, last.to} :
                            balance[a] = last.preBalance[a]
                     /\ allowance = last.preAllowance
           /\ ~last.ok
                  => balance = last.preBalance /\ allowance = last.preAllowance

\* A transfer of the caller's whole, positive balance to another account.
C6_Witness ==
    /\ last.op = "transfer" /\ last.ok
    /\ last.to # last.caller
    /\ last.value > 0
    /\ last.value = last.preBalance[last.caller]

\* C7 (allowance overwrite): approve(spender, v) never fails, also when v
\* exceeds balance_of(caller); afterwards allowance(caller, spender) = v
\* whatever it was before (approve v1 then approve v2 leaves v2, not v1 + v2);
\* it appends exactly Approval(caller, spender, v) and changes no balance and
\* no other allowance entry.
C7_ApproveOverwrites ==
    last.op = "approve"
        => /\ last.ok /\ last.ret = 1
           /\ allowance[last.caller][last.to] = last.value
           /\ \A o, sp \in Address :
                  <<o, sp>> # <<last.caller, last.to>>
                      => allowance[o][sp] = last.preAllowance[o][sp]
           /\ balance = last.preBalance
           /\ log = Append(last.preLog,
                           Approval(last.caller, last.to, last.value))

\* A second approve over a non-zero entry, for more than the caller holds.
C7_Witness ==
    /\ last.op = "approve"
    /\ last.preAllowance[last.caller][last.to] > 0
    /\ last.value > 0
    /\ last.value > balance[last.caller]
    /\ last.preLog = <<Approval(last.caller, last.to,
                                last.preAllowance[last.caller][last.to])>>

\* C8 (deploy mint): right after deploy() balance_of(deployer) = total_supply(),
\* every other balance is 0 and every allowance is 0; the amount deploy
\* credits is the constant total_supply() returns.
C8_DeployMint ==
    last.op = "deploy"
        => /\ balance[last.caller] = total_supply
           /\ \A a \in Address \ {last.caller} : balance[a] = 0
           /\ \A o, sp \in Address : allowance[o][sp] = 0
           /\ owner_balance = total_supply

\* The state right after deploy(), the deployer holding a positive balance.
C8_Witness ==
    /\ last.op = "deploy" /\ deployed /\ calls = 0
    /\ balance[last.caller] > 0

\* C9 (Transfer on every balance movement, the mint included): a committed
\* call that changed a balance appended a Transfer event naming the movement;
\* for deploy() that event is Transfer(zero account, deployer, total supply).
C9_EveryMovementEmitsTransfer ==
    (last.ok /\ balance # last.preBalance)
        => IF last.op = "deploy"
           THEN log = Append(last.preLog,
                             Transfer(ZeroAddress, last.caller, total_supply))
           ELSE log = Append(last.preLog,
                             Transfer(last.from, last.to, last.value))

\* C10 (event correctness of transfer): a successful transfer(to, v) by caller
\* A appends exactly one event, Transfer(A, to, v), after both balance writes
\* of the call, and appends no Approval event.
C10_TransferEvent ==
    (last.op = "transfer" /\ last.ok)
        => /\ log = Append(last.preLog,
                           Transfer(last.caller, last.to, last.value))
           /\ last.trace = <<SStore("Balance", <<last.caller>>),
                             SStore("Balance", <<last.to>>),
                             SStore("log", <<>>)>>

\* A successful transfer onto a log that already holds an Approval event.
C10_Witness ==
    /\ last.op = "transfer" /\ last.ok
    /\ last.value > 0 /\ last.to # last.caller
    /\ Len(last.preLog) = 1 /\ last.preLog[1].name = "Approval"

\* C11 (checked credit): Balance::add fails with an Overflow error and stores
\* nothing whenever the stored balance plus the amount exceeds the largest
\* U256; it never stores the sum wrapped modulo 2^Width.
C11_CheckedCredit ==
    (/\ last.op = "Balance_add"
     /\ last.preBalance[last.to] + last.value > Modulus - 1)
        => /\ ~last.ok
           /\ last.err = "Overflow"
           /\ balance = last.preBalance

\* C12 (single mint): the only mint is the one deploy() at creation; once the
\* router has been called no step is a deploy, and in every state the total
\* credited by minting is total_supply() and equals the sum of the balances.
C12_SingleMint ==
    /\ ghost.minted = IF deployed THEN total_supply ELSE 0
    /\ SumOver(balance, Address) = ghost.minted
    /\ calls > 0 => last.op \in {"transfer", "approve", "transfer_from"}
    /\ last.op = "deploy" => last.preBalance = [a \in Address |-> 0]

\* Two router calls after the mint, the second of which moved value.
C12_Witness ==
    /\ deployed /\ calls >= 2
    /\ last.ok /\ balance # last.preBalance

\* C13 (no underflow): every balance and every allowance is a non-negative
\* U256; a committed debit of a balance or of an allowance found the stored
\* amount >= the amount subtracted and stored the exact difference, never a
\* difference wrapped modulo 2^Width.
C13_NoUnderflow ==
    /\ \A a \in Address : balance[a] \in U256
    /\ \A o, sp \in Address : allowance[o][sp] \in U256
    /\ (last.ok /\ last.op \in {"transfer", "transfer_from"})
           => /\ last.preBalance[last.from] >= last.value
              /\ balance[last.from]
                    = IF last.to = last.from
                      THEN last.preBalance[last.from]
                      ELSE last.preBalance[last.from] - last.value
    /\ (last.ok /\ last.op = "transfer_from")
           => /\ last.preAllowance[last.from][last.caller] >= last.value
              /\ allowance[last.from][last.caller]
                    = last.preAllowance[last.from][last.caller] - last.value

\* A debit that emptied a balance, and one that emptied an allowance.
C13_Witness ==
    /\ last.ok /\ last.op = "transfer_from"
    /\ last.value > 0 /\ last.from # last.to
    /\ balance[last.from] = 0
    /\ allowance[last.from][last.caller] = 0

\* C14 (overflow is unreachable): every balance is at most total_supply(),
\* which is below 2^Width, and every credit made by transfer or transfer_from
\* added value to a balance with balance + value <= total_supply().
C14_NoOverflow ==
    /\ total_supply < Modulus
    /\ \A a \in Address : balance[a] <= total_supply
    /\ (last.ok /\ last.op \in {"transfer", "transfer_from"})
           => LET credited == IF last.to = last.from
                              THEN last.preBalance[last.to] - last.value
                              ELSE last.preBalance[last.to]
              IN  /\ credited + last.value <= total_supply
                  /\ balance[last.to] = credited + last.value

\* A credit onto a balance that was already positive.
C14_Witness ==
    /\ last.ok /\ last.op \in {"transfer", "transfer_from"}
    /\ last.value > 0 /\ last.to # last.from
    /\ last.preBalance[last.to] > 0

\* C15 (debit-then-credit, one write per step): inside a transfer or a
\* transfer_from the balance of the source is written before the balance of
\* the destination, in every intermediate state the balances of the working
\* copy sum to at most total_supply(), and between calls they sum to exactly
\* total_supply().
C15_DebitThenCredit ==
    /\ run.op # "none"
          => /\ SumOver(run.sdk.Balance, Address) <= total_supply
             /\ LET w == BalanceWrites(run.sdk.trace)
                    order == <<SStore("Balance", <<run.from>>),
                               SStore("Balance", <<run.to>>)>>
                IN  /\ Len(w) <= Len(order)
                    /\ \A i \in 1 .. Len(w) : w[i] = order[i]
    /\ (deployed /\ run.op = "none")
          => SumOver(balance, Address) = total_supply

\* Inside a transfer_from: the source is debited, the credit is still to come.
C15_Witness ==
    /\ run.op = "transfer_from" /\ run.from # run.to /\ run.value > 0
    /\ Statement = "credit"
    /\ BalanceWrites(run.sdk.trace) = <<SStore("Balance", <<run.from>>)>>
    /\ SumOver(run.sdk.Balance, Address) < total_supply

\* C16 (self-transfer is balance-neutral): transfer(to, value) with to = caller
\* and value <= balance_of(caller), and transfer_from(from, to, value) with
\* to = from and enough allowance and balance, return 1 and leave every
\* balance unchanged; each still appends one Transfer event, and transfer_from
\* still lowers the allowance by value.
C16_SelfTransferNeutral ==
    /\ (/\ last.op = "transfer" /\ last.to = last.caller
         /\ last.value <= last.preBalance[last.caller])
           => /\ last.ok /\ last.ret = 1
              /\ balance = last.preBalance
              /\ allowance = last.preAllowance
              /\ log = Append(last.preLog,
                              Transfer(last.caller, last.caller, last.value))
    /\ (/\ last.op = "transfer_from" /\ last.to = last.from
         /\ last.preAllowance[last.from][last.caller] >= last.value
         /\ last.preBalance[last.from] >= last.value)
           => /\ last.ok /\ last.ret = 1
              /\ balance = last.preBalance
              /\ allowance[last.from][last.caller]
                    = last.preAllowance[last.from][last.caller] - last.value
              /\ log = Append(last.preLog,
                              Transfer(last.from, last.from, last.value))

\* A spender moved a positive value from an account to that same account.
C16_Witness ==
    /\ last.op = "transfer_from" /\ last.ok
    /\ last.to = last.from /\ last.caller # last.from
    /\ last.value > 0
    /\ last.trace = <<SStore("Allowance", <<last.from, last.caller>>),
                      SStore("Balance", <<last.from>>),
                      SStore("Balance", <<last.from>>),
                      SStore("log", <<>>)>>

\* C17 (spending is bounded by the approval): for every owner O and spender S,
\* what S has moved out of O by successful transfer_from calls since O's
\* latest approve(S, v) is at most v, and allowance(O, S) is v minus that
\* amount; over the whole run what S moved out of O is at most the sum of the
\* values O approved for S.
C17_SpendingBounded ==
    \A o, sp \in Address :
        /\ ghost.spentSince[o][sp] <= ghost.lastApproved[o][sp]
        /\ allowance[o][sp]
              = ghost.lastApproved[o][sp] - ghost.spentSince[o][sp]
        /\ ghost.spentTotal[o][sp] <= ghost.approved[o][sp]

\* The second spend under one approval used the allowance up.
C17_Witness ==
    /\ last.op = "transfer_from" /\ last.ok /\ last.value > 0
    /\ last.value < ghost.spentSince[last.from][last.caller]
    /\ ghost.spentSince[last.from][last.caller]
          = ghost.lastApproved[last.from][last.caller]
    /\ allowance[last.from][last.caller] = 0

\* C18 (balance-decrease authorisation): balance_of(A) is lower after a call
\* than before it only if the call is a successful transfer by A, or a
\* successful transfer_from(A, ., value) whose caller S had
\* allowance(A, S) >= value before the call.
C18_DecreaseAuthorised ==
    \A a \in Address :
        balance[a] < last.preBalance[a]
            => /\ last.ok
               /\ \/ last.op = "transfer" /\ last.caller = a
                  \/ /\ last.op = "transfer_from" /\ last.from = a
                     /\ last.preAllowance[a][last.caller] >= last.value

\* A spender other than the holder lowered the holder's balance.
C18_Witness ==
    /\ last.op = "transfer_from" /\ last.caller # last.from
    /\ balance[last.from] < last.preBalance[last.from]

\* C19 (allowance-change authorisation): allowance(O, S) differs after a call
\* only if the call is approve(S, .) by O or a successful transfer_from(O, ., .)
\* by S; it is higher only after approve(S, .) by O; transfer changes no
\* allowance entry.
C19_AllowanceAuthorised ==
    /\ \A o, sp \in Address :
          /\ allowance[o][sp] # last.preAllowance[o][sp]
                => \/ last.op = "approve" /\ last.caller = o /\ last.to = sp
                   \/ /\ last.op = "transfer_from" /\ last.ok
                      /\ last.from = o /\ last.caller = sp
          /\ allowance[o][sp] > last.preAllowance[o][sp]
                => last.op = "approve" /\ last.caller = o /\ last.to = sp
    /\ last.op = "transfer" => allowance = last.preAllowance

\* An approve by O for another account S changed the entry (O, S).
C19_Witness ==
    /\ last.op = "approve" /\ last.caller # last.to
    /\ allowance[last.caller][last.to]
          # last.preAllowance[last.caller][last.to]
    /\ last.preAllowance[last.caller][last.to] > 0

\* C20 (zero-value movements always succeed): transfer(to, 0) and
\* transfer_from(from, to, 0) return 1 for every caller, from and to, also with
\* allowance(from, caller) = 0 and balance_of(from) = 0; they leave every
\* balance and allowance unchanged and append one Transfer event of value 0.
C20_ZeroValueSucceeds ==
    (last.op \in {"transfer", "transfer_from"} /\ last.value = 0)
        => /\ last.ok /\ last.ret = 1
           /\ balance = last.preBalance
           /\ allowance = last.preAllowance
           /\ log = Append(last.preLog, Transfer(last.from, last.to, 0))

\* A caller with no allowance names an empty account as from.
C20_Witness ==
    /\ last.op = "transfer_from" /\ last.value = 0
    /\ last.caller # last.from /\ last.from # last.to
    /\ last.preAllowance[last.from][last.caller] = 0
    /\ last.preBalance[last.from] = 0
    /\ Len(log) = Len(last.preLog) + 1
====
